---- MODULE Spec2Model ----
(***************************************************************************)
(* FluxFox MetaSector track: the sector list of one MetaSectorTrack, the   *)
(* MetaMask weak/hole overlays, sector matching and the add / read / write *)
(* operations of src/track/metasector.rs.                                  *)
(*                                                                         *)
(* Bytes are integers 0..255, byte vectors are sequences (index 1 is the   *)
(* Rust index 0).  A call that panics is recorded with kind "Panic" and    *)
(* leaves the track as it was.                                             *)
(*                                                                         *)
(* sectors is the track; last is the call just made with its result and    *)
(* pre the track that call found; log is the list of calls of a caller     *)
(* that makes several in a row (ScenarioSpec, CallsSpec); metamask is a    *)
(* MetaMask on its own (MaskSpec); viewer is a SectorViewer of the         *)
(* application that reads the track through the disk (ViewerSpec).         *)
(***************************************************************************)
EXTENDS Integers, Sequences, FiniteSets, TLC

VARIABLES sectors, pre, last, log, metamask, viewer

vars == <<sectors, pre, last, log, metamask, viewer>>

(***************************************************************************)
(* Bounds of the model.                                                    *)
(***************************************************************************)
MaxSectors == 2
MaxScenarioSectors == 2
MaxMaskLen == 2
MaxIdSectors == 3

(***************************************************************************)
(* Byte arithmetic.                                                        *)
(***************************************************************************)
RECURSIVE BitAnd(_, _)
BitAnd(a, b) ==
    IF a = 0 \/ b = 0 THEN 0
    ELSE ((a % 2) * (b % 2)) + 2 * BitAnd(a \div 2, b \div 2)

RECURSIVE BitOr(_, _)
BitOr(a, b) ==
    IF a = 0 THEN b
    ELSE IF b = 0 THEN a
    ELSE (IF (a % 2) + (b % 2) > 0 THEN 1 ELSE 0) + 2 * BitOr(a \div 2, b \div 2)

RECURSIVE BitXor(_, _)
BitXor(a, b) ==
    IF a = 0 THEN b
    ELSE IF b = 0 THEN a
    ELSE (((a % 2) + (b % 2)) % 2) + 2 * BitXor(a \div 2, b \div 2)

BitNot(a) == 255 - a

Min(a, b) == IF a < b THEN a ELSE b

Fill(b, len) == [i \in 1..len |-> b]

AnyNonZero(bytes) == \E i \in 1..Len(bytes) : bytes[i] # 0

(***************************************************************************)
(* DiskChsn                                                                *)
(***************************************************************************)
Chsn(c, h, s, n) == [c |-> c, h |-> h, s |-> s, n |-> n]

Chs(c, h, s) == [c |-> c, h |-> h, s |-> s]

ChsFrom(id) == [c |-> id.c, h |-> id.h, s |-> id.s]

n_to_bytes(n) == 128 * (2 ^ n)

(***************************************************************************)
(* MetaMask                                                                *)
(***************************************************************************)
MetaMask_empty(len) == [has_bits |-> FALSE, mask |-> Fill(0, len)]

set_mask(m, mask) == [has_bits |-> AnyNonZero(mask), mask |-> mask]

MetaMask_default == [has_bits |-> FALSE, mask |-> <<>>]

MetaMask_from(mask) == set_mask(MetaMask_default, mask)

\* self.mask[i] |= m for every index of the source; an index past the end of
\* the receiver panics.
or_slice_panics(m, source_mask) == Len(source_mask) > Len(m.mask)

or_slice(m, source_mask) ==
    LET merged == [i \in 1..Len(m.mask) |->
                      IF i <= Len(source_mask)
                      THEN BitOr(m.mask[i], source_mask[i])
                      ELSE m.mask[i]]
    IN  [has_bits |-> AnyNonZero(merged), mask |-> merged]

\* or_mask runs the loop of or_slice over the bytes of another MetaMask.
or_mask_panics(m, source_mask) == or_slice_panics(m, source_mask.mask)

or_mask(m, source_mask) == or_slice(m, source_mask.mask)

\* What a panicking or_slice / or_mask leaves behind: the bytes before the
\* out-of-bounds index are merged, has_bits is not recomputed.
or_slice_unwound(m, source_mask) ==
    [has_bits |-> m.has_bits, mask |-> or_slice(m, source_mask).mask]

\* clear that zeroes the bytes and leaves has_bits as it was.
clear_KeepsFlag(m) == [has_bits |-> m.has_bits, mask |-> Fill(0, Len(m.mask))]

clear(m) == [has_bits |-> FALSE, mask |-> Fill(0, Len(m.mask))]

(***************************************************************************)
(* MetaSector                                                              *)
(***************************************************************************)
None == [some |-> FALSE]

Some(v) == [some |-> TRUE, val |-> v]

\* weak_byte | hole_byte at index i of the zipped masks (0 past the shorter).
MaskByte(s, i) ==
    IF i <= Len(s.weak_mask.mask) /\ i <= Len(s.hole_mask.mask)
    THEN BitOr(s.weak_mask.mask[i], s.hole_mask.mask[i])
    ELSE 0

\* The indices at which read_data draws a random byte.
MaskedIdx(s) ==
    {i \in 1..Min(Len(s.weak_mask.mask), Len(s.hole_mask.mask)) : MaskByte(s, i) # 0}

\* data[i] with i past the end of the data panics.
read_data_panics(s) ==
    /\ ~s.missing_data
    /\ \E i \in MaskedIdx(s) : i > Len(s.data)

read_data_MaskSwapped(s, rnd) ==
    IF s.missing_data THEN <<>>
    ELSE [i \in 1..Len(s.data) |->
            LET mask_byte == MaskByte(s, i)
            IN  IF mask_byte = 0 THEN s.data[i]
                ELSE BitOr(BitAnd(s.data[i], mask_byte),
                           BitAnd(rnd[i], BitNot(mask_byte)))]

\* rnd maps each masked index to the random byte drawn for it.
read_data(s, rnd) ==
    IF s.missing_data THEN <<>>
    ELSE [i \in 1..Len(s.data) |->
            LET mask_byte == MaskByte(s, i)
            IN  IF mask_byte = 0 THEN s.data[i]
                ELSE BitOr(BitAnd(s.data[i], BitNot(mask_byte)),
                           BitAnd(rnd[i], mask_byte))]

(***************************************************************************)
(* Inputs                                                                  *)
(***************************************************************************)
RandBytes == {0, 90, 255}

RandDraws(s) == IF s.missing_data THEN {<<>>} ELSE [MaskedIdx(s) -> RandBytes]

IdA == Chsn(0, 0, 1, 0)
IdB == Chsn(0, 0, 1, 1)
IdC == Chsn(1, 0, 2, 0)
IdD == Chsn(255, 1, 2, 1)

\* A mask of the given length with its first two bytes set.
MaskBytes(b1, b2, len) == [i \in 1..len |-> IF i = 1 THEN b1 ELSE IF i = 2 THEN b2 ELSE 0]

Descriptor(id, ace, dce, del, miss, data, weak, hole) ==
    [id_chsn |-> id, address_crc_error |-> ace, data_crc_error |-> dce,
     deleted_mark |-> del, missing_data |-> miss, data |-> data,
     weak_mask |-> weak, hole_mask |-> hole]

\* Sector descriptors as a format parser hands them to add_sector: masks, when
\* present, have the length of the data; the data length is whatever the
\* parser read, which for the corrupt ID IdD (cylinder 0xFF) is not the length
\* its size code N announces.
Descriptors ==
    { Descriptor(IdA, FALSE, FALSE, FALSE, FALSE, Fill(170, 128), None, None),
      Descriptor(IdB, TRUE,  TRUE,  FALSE, FALSE, Fill(171, 256), None, None),
      Descriptor(IdC, FALSE, FALSE, TRUE,  TRUE,  Fill(171, 128), None, None),
      Descriptor(IdA, FALSE, FALSE, TRUE,  FALSE, Fill(171, 128),
                 None, Some(MaskBytes(255, 15, 128))),
      Descriptor(IdC, FALSE, TRUE,  FALSE, FALSE, Fill(171, 128),
                 Some(MaskBytes(1, 0, 128)), Some(Fill(0, 128))),
      Descriptor(IdD, FALSE, FALSE, FALSE, FALSE, Fill(170, 128), None, None) }

(***************************************************************************)
(* MetaSectorTrack::add_sector                                             *)
(***************************************************************************)
Ok(v) == [kind |-> "Ok", val |-> v]

Err(e) == [kind |-> "Err", err |-> e]

Panic == [kind |-> "Panic"]

Unit == "()"

\* NewSector with the data zeroed instead of cloned from the descriptor.
NewSector_ZeroData(sd) ==
    [id_chsn |-> sd.id_chsn,
     address_crc_error |-> sd.address_crc_error,
     data_crc_error |-> sd.data_crc_error,
     deleted_mark |-> sd.deleted_mark,
     missing_data |-> sd.missing_data,
     data |-> Fill(0, Len(sd.data)),
     weak_mask |-> IF sd.weak_mask.some THEN MetaMask_from(sd.weak_mask.val)
                   ELSE MetaMask_empty(Len(sd.data)),
     hole_mask |-> IF sd.hole_mask.some THEN MetaMask_from(sd.hole_mask.val)
                   ELSE MetaMask_empty(Len(sd.data))]

NewSector(sd) ==
    [id_chsn |-> sd.id_chsn,
     address_crc_error |-> sd.address_crc_error,
     data_crc_error |-> sd.data_crc_error,
     deleted_mark |-> sd.deleted_mark,
     missing_data |-> sd.missing_data,
     data |-> sd.data,
     weak_mask |-> IF sd.weak_mask.some THEN MetaMask_from(sd.weak_mask.val)
                   ELSE MetaMask_empty(Len(sd.data)),
     hole_mask |-> IF sd.hole_mask.some THEN MetaMask_from(sd.hole_mask.val)
                   ELSE MetaMask_empty(Len(sd.data))]

\* Index of the first sector with the given id_chsn, 0 when there is none.
FindId(S, id) ==
    IF \E i \in 1..Len(S) : S[i].id_chsn = id
    THEN CHOOSE i \in 1..Len(S) :
            /\ S[i].id_chsn = id
            /\ \A j \in 1..(i - 1) : S[j].id_chsn # id
    ELSE 0

\* add_sector that puts the new sector at the front of the track.
add_sector_Prepends(S, sd, alternate) ==
    LET new_sector == NewSector(sd)
        e == FindId(S, sd.id_chsn)
    IN  IF alternate /\ e # 0
        THEN IF Min(Len(new_sector.data), Len(S[e].data)) > 0
             THEN [res |-> Panic, sectors |-> S]
             ELSE [res |-> Ok(Unit),
                   sectors |-> [S EXCEPT ![e].weak_mask = or_slice(@, <<>>)]]
        ELSE [res |-> Ok(Unit), sectors |-> <<new_sector>> \o S]

\* The result of add_sector and the sector list it leaves.
add_sector(S, sd, alternate) ==
    LET new_sector == NewSector(sd)
        e == FindId(S, sd.id_chsn)
    IN  IF alternate /\ e # 0
        THEN \* xor_vec is created empty (with_capacity), so the first
             \* xor_vec[i] = .. of the loop is out of bounds.
             IF Min(Len(new_sector.data), Len(S[e].data)) > 0
             THEN [res |-> Panic, sectors |-> S]
             ELSE [res |-> Ok(Unit),
                   sectors |-> [S EXCEPT ![e].weak_mask = or_slice(@, <<>>)]]
        ELSE [res |-> Ok(Unit), sectors |-> Append(S, new_sector)]

(***************************************************************************)
(* Sector matching                                                         *)
(***************************************************************************)
\* The filter closure without the test of N.
Matches_IgnoresN(s, chs, n, debug) ==
    LET matched_s == s.id_chsn.s = chs.s
    IN  \/ debug /\ matched_s
        \/ ChsFrom(s.id_chsn) = chs

\* The filter closure of match_sectors: does sector s match the query?
Matches(s, chs, n, debug) ==
    LET matched_s == s.id_chsn.s = chs.s
    IN  \/ debug /\ matched_s
        \/ /\ ChsFrom(s.id_chsn) = chs
           /\ (~n.some \/ s.id_chsn.n = n.val)

\* The subsequence of indices 1..k of S whose sectors match, in physical order.
RECURSIVE MatchIdx(_, _, _, _, _)
MatchIdx(S, k, chs, n, debug) ==
    IF k = 0 THEN <<>>
    ELSE IF Matches(S[k], chs, n, debug)
         THEN Append(MatchIdx(S, k - 1, chs, n, debug), k)
         ELSE MatchIdx(S, k - 1, chs, n, debug)

\* match_sectors with the diagnostics taken over the matching sectors only.
match_sectors_DiagOfMatches(S, chs, n, debug) ==
    LET m == MatchIdx(S, Len(S), chs, n, debug)
    IN  [sectors |-> m,
         sizes |-> {S[i].id_chsn.n : i \in 1..Len(S)},
         wrong_cylinder |-> \E k \in 1..Len(m) : S[m[k]].id_chsn.c # chs.c,
         bad_cylinder |-> \E k \in 1..Len(m) : S[m[k]].id_chsn.c = 255,
         wrong_head |-> \E k \in 1..Len(m) : S[m[k]].id_chsn.h # chs.h]

\* SectorMatch: the matching sectors are held as their indices in the track.
match_sectors(S, chs, n, debug) ==
    [sectors |-> MatchIdx(S, Len(S), chs, n, debug),
     sizes |-> {S[i].id_chsn.n : i \in 1..Len(S)},
     wrong_cylinder |-> \E i \in 1..Len(S) : S[i].id_chsn.c # chs.c,
     bad_cylinder |-> \E i \in 1..Len(S) : S[i].id_chsn.c = 255,
     wrong_head |-> \E i \in 1..Len(S) : S[i].id_chsn.h # chs.h]

\* SectorMatchMut
match_sectors_mut(S, chs, n, debug) ==
    [sectors |-> MatchIdx(S, Len(S), chs, n, debug),
     sizes |-> {S[i].id_chsn.n : i \in 1..Len(S)},
     wrong_cylinder |-> \E i \in 1..Len(S) : S[i].id_chsn.c # chs.c,
     bad_cylinder |-> \E i \in 1..Len(S) : S[i].id_chsn.c = 255,
     wrong_head |-> \E i \in 1..Len(S) : S[i].id_chsn.h # chs.h]

(***************************************************************************)
(* MetaSectorTrack::read_sector                                            *)
(***************************************************************************)
ReadNotFound_NoFlag(sm) ==
    [id_chsn |-> None, data_idx |-> 0, data_len |-> 0, read_buf |-> <<>>,
     deleted_mark |-> FALSE, not_found |-> FALSE, no_dam |-> FALSE,
     address_crc_error |-> FALSE, data_crc_error |-> FALSE,
     wrong_cylinder |-> sm.wrong_cylinder, bad_cylinder |-> sm.bad_cylinder,
     wrong_head |-> sm.wrong_head]

\* The ReadSectorResult of a query that matched no sector.
ReadNotFound(sm) ==
    [id_chsn |-> None,
     data_idx |-> 0,
     data_len |-> 0,
     read_buf |-> <<>>,
     deleted_mark |-> FALSE,
     not_found |-> TRUE,
     no_dam |-> FALSE,
     address_crc_error |-> FALSE,
     data_crc_error |-> FALSE,
     wrong_cylinder |-> sm.wrong_cylinder,
     bad_cylinder |-> sm.bad_cylinder,
     wrong_head |-> sm.wrong_head]

ReadSelected_Last(sm) == sm.sectors[Len(sm.sectors)]

\* let s = sm.sectors[0]: the track index of the sector a read uses.
ReadSelected(sm) == sm.sectors[1]

\* The result of read_sector; rnd holds the random bytes read_data draws.
read_sector(S, chs, n, scope, debug, rnd) ==
    IF scope = "DataBlock" THEN Panic
    ELSE
    LET sm == match_sectors(S, chs, n, debug)
    IN  IF Len(sm.sectors) = 0
        THEN Ok(ReadNotFound(sm))
        ELSE LET s == S[ReadSelected(sm)]
             IN  IF read_data_panics(s) THEN Panic
                 ELSE Ok([id_chsn |-> Some(s.id_chsn),
                          data_idx |-> 0,
                          data_len |-> Len(s.data),
                          read_buf |-> read_data(s, rnd),
                          deleted_mark |-> s.deleted_mark,
                          not_found |-> FALSE,
                          no_dam |-> FALSE,
                          address_crc_error |-> s.address_crc_error,
                          data_crc_error |-> s.data_crc_error,
                          wrong_cylinder |-> sm.wrong_cylinder,
                          bad_cylinder |-> sm.bad_cylinder,
                          wrong_head |-> sm.wrong_head])

\* The random draws a read_sector call can make for its selected sector.
ReadDraws(S, chs, n, scope, debug) ==
    LET sm == match_sectors(S, chs, n, debug)
    IN  IF scope = "DataBlock" \/ Len(sm.sectors) = 0 THEN {<<>>}
        ELSE IF read_data_panics(S[ReadSelected(sm)]) THEN {<<>>}
        ELSE RandDraws(S[ReadSelected(sm)])

(***************************************************************************)
(* MetaSectorTrack::scan_sector                                            *)
(***************************************************************************)
ScanSelected_Last(sm) == sm.sectors[Len(sm.sectors)]

\* let s = sm.sectors[0]: the track index of the sector a scan reports.
ScanSelected(sm) == sm.sectors[1]

scan_sector(S, chs, n) ==
    LET sm == match_sectors(S, chs, n, FALSE)
    IN  IF Len(sm.sectors) = 0
        THEN Ok([not_found |-> TRUE,
                 no_dam |-> FALSE,
                 deleted_mark |-> FALSE,
                 address_crc_error |-> FALSE,
                 data_crc_error |-> FALSE,
                 wrong_cylinder |-> sm.wrong_cylinder,
                 bad_cylinder |-> sm.bad_cylinder,
                 wrong_head |-> sm.wrong_head])
        ELSE LET s == S[ScanSelected(sm)]
             IN  Ok([deleted_mark |-> s.deleted_mark,
                     not_found |-> FALSE,
                     no_dam |-> FALSE,
                     address_crc_error |-> s.address_crc_error,
                     data_crc_error |-> s.data_crc_error,
                     wrong_cylinder |-> sm.wrong_cylinder,
                     bad_cylinder |-> sm.bad_cylinder,
                     wrong_head |-> sm.wrong_head])

(***************************************************************************)
(* MetaSectorTrack::write_sector                                           *)
(***************************************************************************)
NotUnique_OverTwo(sm) == Len(sm.sectors) > 2

\* sm.len() > 1
NotUnique(sm) == Len(sm.sectors) > 1

WriteNotFound_NoDiag(sm) ==
    [not_found |-> FALSE, no_dam |-> FALSE, address_crc_error |-> FALSE,
     wrong_cylinder |-> FALSE, bad_cylinder |-> FALSE, wrong_head |-> FALSE]

\* The WriteSectorResult of a query that matched no sector.
WriteNotFound(sm) ==
    [not_found |-> FALSE,
     no_dam |-> FALSE,
     address_crc_error |-> FALSE,
     wrong_cylinder |-> sm.wrong_cylinder,
     bad_cylinder |-> sm.bad_cylinder,
     wrong_head |-> sm.wrong_head]

SizeMismatch_DataLen(s, write_data) == Len(s.data) # Len(write_data)

\* DiskChsn::n_to_bytes(sm.sectors[0].id_chsn.n()) != write_data_len
SizeMismatch(s, write_data) == n_to_bytes(s.id_chsn.n) # Len(write_data)

Unwritable_DamOnly(s) == s.missing_data

\* sm.sectors[0].missing_data || sm.sectors[0].address_crc_error
Unwritable(s) == s.missing_data \/ s.address_crc_error

Written_ClearsHole(s, write_data, write_deleted) ==
    [s EXCEPT !.data = write_data, !.deleted_mark = write_deleted,
              !.hole_mask = MetaMask_empty(Len(s.hole_mask.mask))]

Written_KeepsData(s, write_data, write_deleted) ==
    [s EXCEPT !.deleted_mark = write_deleted]

\* data.copy_from_slice(write_data); deleted_mark = write_deleted
Written(s, write_data, write_deleted) ==
    [s EXCEPT !.data = write_data, !.deleted_mark = write_deleted]

\* The result of write_sector and the sector list it leaves.
write_sector(S, chs, n, write_data, scope, write_deleted, debug) ==
    LET sm == match_sectors_mut(S, chs, n, debug)
    IN  IF NotUnique(sm)
        THEN [res |-> Err("UniqueIdError"), sectors |-> S]
        ELSE IF Len(sm.sectors) = 0
        THEN [res |-> Ok(WriteNotFound(sm)), sectors |-> S]
        ELSE
        LET i == sm.sectors[1]
            s == S[i]
        IN  IF SizeMismatch(s, write_data)
            THEN [res |-> Err("ParameterError"), sectors |-> S]
            ELSE IF ~Unwritable(s) /\ Len(s.data) # Len(write_data)
            THEN \* copy_from_slice panics on slices of different lengths
                 [res |-> Panic, sectors |-> S]
            ELSE
            LET T == IF Unwritable(s) THEN S
                     ELSE [S EXCEPT ![i] = Written(s, write_data, write_deleted)]
            IN  [res |-> Ok([not_found |-> FALSE,
                             no_dam |-> T[i].missing_data,
                             address_crc_error |-> T[i].address_crc_error,
                             wrong_cylinder |-> sm.wrong_cylinder,
                             bad_cylinder |-> sm.bad_cylinder,
                             wrong_head |-> sm.wrong_head]),
                 sectors |-> T]

(***************************************************************************)
(* MetaSectorTrack::has_weak_bits                                          *)
(***************************************************************************)
\* has_weak_bits that looks at the first sector only.
has_weak_bits_FirstOnly(S) == Len(S) > 0 /\ S[1].weak_mask.has_bits

\* Some sector of the track has a weak mask with has_bits set.
has_weak_bits(S) == \E i \in 1..Len(S) : S[i].weak_mask.has_bits

(***************************************************************************)
(* MetaSectorTrack::read_all_sectors and get_hash                          *)
(***************************************************************************)
\* The random bytes of one read_data call within a read of the whole track:
\* one value from RandBytes for all masked bytes of the sector.
SectorDraws(s) ==
    IF s.missing_data THEN {<<>>}
    ELSE {[i \in MaskedIdx(s) |-> b] : b \in RandBytes}

\* One draw per sector, for the first k sectors of the track.
RECURSIVE DrawsUpTo(_, _)
DrawsUpTo(S, k) ==
    IF k = 0 THEN {<<>>}
    ELSE {Append(rnds, rnd) : rnds \in DrawsUpTo(S, k - 1), rnd \in SectorDraws(S[k])}

TrackDraws(S) == DrawsUpTo(S, Len(S))

\* read_data() of the first k sectors, one after the other.
RECURSIVE ReadUpTo(_, _, _)
ReadUpTo(S, k, rnds) ==
    IF k = 0 THEN <<>>
    ELSE ReadUpTo(S, k - 1, rnds) \o read_data(S[k], rnds[k])

\* read_all_sectors with the flags taken over all sectors of the track.
read_all_sectors_FlagsOfAll(S, n, track_len, rnds) ==
    LET sectors_read == Min(Len(S), track_len)
        read == 1..sectors_read
        all == 1..Len(S)
    IN  IF \E i \in read : read_data_panics(S[i]) THEN Panic
        ELSE LET track_read_vec == ReadUpTo(S, sectors_read, rnds)
             IN  Ok([not_found |-> Len(S) = 0,
                     sectors_read |-> sectors_read,
                     read_buf |-> track_read_vec,
                     deleted_mark |-> \E i \in all : S[i].deleted_mark,
                     address_crc_error |-> \E i \in all : S[i].address_crc_error,
                     data_crc_error |-> \E i \in all : S[i].data_crc_error,
                     read_len_bits |-> Len(track_read_vec) * 16,
                     read_len_bytes |-> Len(track_read_vec)])

\* The loop stops once track_len sectors have been read.  n only sizes the
\* capacity of the buffer.
read_all_sectors(S, n, track_len, rnds) ==
    LET sectors_read == Min(Len(S), track_len)
        read == 1..sectors_read
    IN  IF \E i \in read : read_data_panics(S[i]) THEN Panic
        ELSE LET track_read_vec == ReadUpTo(S, sectors_read, rnds)
             IN  Ok([not_found |-> Len(S) = 0,
                     sectors_read |-> sectors_read,
                     read_buf |-> track_read_vec,
                     deleted_mark |-> \E i \in read : S[i].deleted_mark,
                     address_crc_error |-> \E i \in read : S[i].address_crc_error,
                     data_crc_error |-> \E i \in read : S[i].data_crc_error,
                     read_len_bits |-> Len(track_read_vec) * 16,
                     read_len_bytes |-> Len(track_read_vec)])

\* The SHA-1 digest, as the message it is the digest of.
Sha1(message) == [sha1_of |-> message]

get_hash(S, rnds) ==
    LET rtr == read_all_sectors(S, 255, 255, rnds)
    IN  IF rtr.kind = "Ok" THEN Ok(Sha1(rtr.val.read_buf)) ELSE Panic

(***************************************************************************)
(* MetaSectorTrack::get_next_id and get_track_consistency                  *)
(***************************************************************************)
\* The id built with the recorded C and H of the sector.
NextIdOf_Recorded(chs, si) == Some(si.id_chsn)

\* The id get_next_id builds for the sector si it found.
NextIdOf(chs, si) == Some(Chsn(chs.c, chs.h, si.id_chsn.s, si.id_chsn.n))

\* The last sector taken for the first one.
first_sector_Last(S) == S[Len(S)]

first_sector(S) == S[1]

\* The loop over the sectors from index k on, then the wrap to the first one.
RECURSIVE NextIdFrom(_, _, _, _)
NextIdFrom(S, k, chs, sector_matched) ==
    IF k > Len(S)
    THEN IF sector_matched THEN NextIdOf(chs, first_sector(S)) ELSE None
    ELSE IF sector_matched THEN NextIdOf(chs, S[k])
         ELSE NextIdFrom(S, k + 1, chs, S[k].id_chsn.s = chs.s)

get_next_id(S, chs) == IF S = <<>> THEN None ELSE NextIdFrom(S, 1, chs, FALSE)

\* None as soon as one size code is present.
ConsistentSize_NoneIfAny(n_set, last_n) ==
    IF Cardinality(n_set) >= 1 THEN None ELSE Some(last_n)

ConsistentSize(n_set, last_n) ==
    IF Cardinality(n_set) > 1 THEN None ELSE Some(last_n)

\* TrackConsistency::default(): nothing found yet.
TrackConsistency_default ==
    [sector_ct |-> 0,
     nonconsecutive_sectors |-> FALSE,
     bad_data_crc |-> FALSE,
     bad_address_crc |-> FALSE,
     deleted_data |-> FALSE,
     consistent_sector_size |-> None]

\* One pass over the sectors; last_n starts at 0.
get_track_consistency(S) ==
    LET consistency == TrackConsistency_default
        n_set == {S[i].id_chsn.n : i \in 1..Len(S)}
        last_n == IF S = <<>> THEN 0 ELSE S[Len(S)].id_chsn.n
    IN  [consistency EXCEPT
            !.nonconsecutive_sectors = @ \/ \E i \in 1..Len(S) : S[i].id_chsn.s # i,
            !.bad_data_crc = @ \/ \E i \in 1..Len(S) : S[i].data_crc_error,
            !.bad_address_crc = @ \/ \E i \in 1..Len(S) : S[i].address_crc_error,
            !.deleted_data = @ \/ \E i \in 1..Len(S) : S[i].deleted_mark,
            !.consistent_sector_size = ConsistentSize(n_set, last_n),
            !.sector_ct = Len(S)]

(***************************************************************************)
(* Inputs of the read and write calls                                      *)
(***************************************************************************)
QueryChs == {Chs(0, 0, 1), Chs(1, 0, 2)}

QueryN == {None, Some(0)}

Scopes == {"DataOnly", "DataBlock"}

\* write_sector ignores its scope argument.
WriteScopes == {"DataOnly"}

WriteBufs == {Fill(85, 128), Fill(85, 256)}

\* The n and track_len of read_all_sectors (u8); get_hash passes 0xFF, 0xFF.
TrackReads == {[n |-> 0, track_len |-> 0],
               [n |-> 0, track_len |-> 1],
               [n |-> 255, track_len |-> 255]}

(***************************************************************************)
(* DiskImage::read_sector and SectorViewer::update                         *)
(*                                                                         *)
(* The disk holds the track at one physical cylinder and head, TrackCh.    *)
(* The viewer is the record of the fields update assigns; its table holds  *)
(* "zeros" after set_data(&[0; 512]) and "data" after set_data of the      *)
(* bytes read.                                                             *)
(***************************************************************************)
TrackCh == [c |-> 0, h |-> 0]

PhysChs == {TrackCh, [c |-> 1, h |-> 0]}

\* The facade: no track at phys_ch is a SeekError; otherwise the call is
\* forwarded to the track and the track's result comes back as it is.
DiskImage_read_sector(S, phys_ch, chs, n, scope, debug, rnd) ==
    IF phys_ch # TrackCh THEN Err("SeekError")
    ELSE read_sector(S, chs, n, scope, debug, rnd)

SectorViewer_new(phys_ch, sector_id) ==
    [phys_ch |-> phys_ch, sector_id |-> sector_id, table |-> "default",
     open |-> FALSE, valid |-> FALSE, error_string |-> None]

\* A viewer whose disk write lock was not granted.
update_LockFailed(v) ==
    [v EXCEPT !.error_string = Some("Failed to acquire disk write lock."),
              !.valid = FALSE]

\* The data range of a result record is the data_len bytes from data_idx; a
\* slice of read_buf by a range that ends past the buffer panics.
data_range_panics(val) == val.data_idx + val.data_len > Len(val.read_buf)

\* The viewer after update got rsr from the disk's read_sector, the lock held.
\* A panic, of the read or of the slice, leaves the fields assigned so far.
update_OnResult(v, selection, rsr) ==
    LET w == [v EXCEPT !.phys_ch = selection.phys_ch]
    IN  IF rsr.kind = "Panic" THEN w
        ELSE IF rsr.kind = "Err"
        THEN [w EXCEPT !.error_string = Some(rsr.err), !.valid = FALSE]
        ELSE IF rsr.val.not_found
        THEN [w EXCEPT !.error_string = Some("Sector not found"),
                       !.table = "zeros", !.valid = FALSE]
        ELSE IF rsr.val.id_chsn.some
        THEN IF data_range_panics(rsr.val)
             THEN [w EXCEPT !.sector_id = rsr.val.id_chsn.val]
             ELSE [w EXCEPT !.sector_id = rsr.val.id_chsn.val, !.table = "data",
                            !.error_string = None, !.valid = TRUE]
        ELSE [w EXCEPT !.error_string = Some("Sector ID not returned"),
                       !.table = "zeros", !.valid = FALSE]

(***************************************************************************)
(* The track as a state machine                                            *)
(***************************************************************************)
Init ==
    /\ sectors = <<>>
    /\ pre = <<>>
    /\ last = [op |-> "idle"]
    /\ log = <<>>
    /\ metamask = MetaMask_default
    /\ viewer = SectorViewer_new(TrackCh, IdA)

Idle == [op |-> "idle"]

AddSector ==
    /\ last = Idle
    /\ \E sd \in Descriptors, alternate \in BOOLEAN :
        LET r == add_sector(sectors, sd, alternate)
        IN  /\ Len(r.sectors) <= MaxSectors
            /\ sectors' = r.sectors
            /\ pre' = sectors
            /\ last' = [op |-> "add_sector", sd |-> sd, alternate |-> alternate,
                        res |-> r.res]
            /\ UNCHANGED <<log, metamask, viewer>>

ReadSector ==
    /\ last = Idle
    /\ \E chs \in QueryChs, n \in QueryN, scope \in Scopes, debug \in BOOLEAN :
        \E rnd \in ReadDraws(sectors, chs, n, scope, debug) :
            /\ sectors' = sectors
            /\ pre' = sectors
            /\ last' = [op |-> "read_sector", chs |-> chs, n |-> n, scope |-> scope,
                        debug |-> debug,
                        res |-> read_sector(sectors, chs, n, scope, debug, rnd)]
            /\ UNCHANGED <<log, metamask, viewer>>

WriteSector ==
    /\ last = Idle
    /\ \E chs \in QueryChs, n \in QueryN, write_data \in WriteBufs,
          scope \in WriteScopes, write_deleted \in BOOLEAN, debug \in BOOLEAN :
        LET r == write_sector(sectors, chs, n, write_data, scope, write_deleted, debug)
        IN  /\ sectors' = r.sectors
            /\ pre' = sectors
            /\ last' = [op |-> "write_sector", chs |-> chs, n |-> n,
                        write_data |-> write_data, scope |-> scope,
                        write_deleted |-> write_deleted, debug |-> debug,
                        res |-> r.res]
            /\ UNCHANGED <<log, metamask, viewer>>

\* read_data on one sector of the track.
ReadData ==
    /\ last = Idle
    /\ \E i \in 1..Len(sectors) :
        \E rnd \in RandDraws(sectors[i]) :
            /\ last' = [op |-> "read_data", idx |-> i,
                        res |-> IF read_data_panics(sectors[i]) THEN Panic
                                ELSE Ok(read_data(sectors[i], rnd))]
            /\ pre' = sectors
            /\ UNCHANGED <<sectors, log, metamask, viewer>>

ScanSector ==
    /\ last = Idle
    /\ \E chs \in QueryChs, n \in QueryN :
        /\ last' = [op |-> "scan_sector", chs |-> chs, n |-> n, debug |-> FALSE,
                    res |-> scan_sector(sectors, chs, n)]
        /\ pre' = sectors
        /\ UNCHANGED <<sectors, log, metamask, viewer>>

\* rnds holds the random bytes of the read_data calls of the sectors read.
ReadAllSectors ==
    /\ last = Idle
    /\ \E t \in TrackReads :
        \E rnds \in DrawsUpTo(sectors, Min(Len(sectors), t.track_len)) :
            /\ last' = [op |-> "read_all_sectors", n |-> t.n, track_len |-> t.track_len,
                        rnds |-> rnds,
                        res |-> read_all_sectors(sectors, t.n, t.track_len, rnds)]
            /\ pre' = sectors
            /\ UNCHANGED <<sectors, log, metamask, viewer>>

GetHash ==
    /\ last = Idle
    /\ \E rnds \in TrackDraws(sectors) :
        /\ last' = [op |-> "get_hash", res |-> get_hash(sectors, rnds)]
        /\ pre' = sectors
        /\ UNCHANGED <<sectors, log, metamask, viewer>>

QueryNextId ==
    /\ last = Idle
    /\ \E chs \in QueryChs :
        /\ last' = [op |-> "get_next_id", chs |-> chs, res |-> get_next_id(sectors, chs)]
        /\ pre' = sectors
        /\ UNCHANGED <<sectors, log, metamask, viewer>>

QueryTrackConsistency ==
    /\ last = Idle
    /\ last' = [op |-> "get_track_consistency", res |-> get_track_consistency(sectors)]
    /\ pre' = sectors
    /\ UNCHANGED <<sectors, log, metamask, viewer>>

MatchSectors ==
    /\ last = Idle
    /\ \E chs \in QueryChs, n \in QueryN, debug \in BOOLEAN :
        /\ last' = [op |-> "match_sectors", chs |-> chs, n |-> n, debug |-> debug,
                    res |-> match_sectors(sectors, chs, n, debug)]
        /\ pre' = sectors
        /\ UNCHANGED <<sectors, log, metamask, viewer>>

MatchSectorsMut ==
    /\ last = Idle
    /\ \E chs \in QueryChs, n \in QueryN, debug \in BOOLEAN :
        /\ last' = [op |-> "match_sectors_mut", chs |-> chs, n |-> n, debug |-> debug,
                    res |-> match_sectors_mut(sectors, chs, n, debug)]
        /\ pre' = sectors
        /\ UNCHANGED <<sectors, log, metamask, viewer>>

\* The caller drops the result of the call; the track is ready for the next.
DropResult ==
    /\ last # Idle
    /\ last' = Idle
    /\ pre' = sectors
    /\ UNCHANGED <<sectors, log, metamask, viewer>>

Next ==
    \/ AddSector
    \/ ReadSector
    \/ WriteSector
    \/ ReadData
    \/ ScanSector
    \/ ReadAllSectors
    \/ GetHash
    \/ QueryNextId
    \/ QueryTrackConsistency
    \/ MatchSectors
    \/ MatchSectorsMut
    \/ DropResult

Spec == Init /\ [][Next]_vars

(***************************************************************************)
(* Call sequences on one track: a caller that reads a sector, writes a     *)
(* buffer (possibly the one it just read) to the same query and reads or   *)
(* writes again.  log holds the calls made so far, each with the track it  *)
(* found.                                                                  *)
(***************************************************************************)
ScenarioDescriptors ==
    {sd \in Descriptors : ~sd.address_crc_error /\ (sd.id_chsn = IdA \/ sd.weak_mask.some)}

\* The tracks add_sector builds from at most k descriptors.
RECURSIVE TracksUpTo(_)
TracksUpTo(k) ==
    IF k = 0 THEN {<<>>}
    ELSE LET shorter == TracksUpTo(k - 1)
         IN  shorter \cup {add_sector(S, sd, FALSE).sectors :
                              S \in shorter, sd \in ScenarioDescriptors}

Queries == [chs : QueryChs, n : QueryN, debug : BOOLEAN]

\* The query of the scenario is the query of its first call.
ScenarioQueries == IF log = <<>> THEN Queries
                   ELSE {[chs |-> log[1].chs, n |-> log[1].n, debug |-> log[1].debug]}

\* The buffer the caller may write: a fresh one as the first call, the one it
\* just read after a read, the one it just wrote after a write.
ScenarioBufs ==
    IF log = <<>> THEN WriteBufs
    ELSE LET prev == log[Len(log)]
         IN  IF prev.op = "read_sector"
             THEN (IF prev.res.kind = "Ok" THEN {prev.res.val.read_buf} ELSE {})
             ELSE {prev.write_data}

InitScenario ==
    /\ sectors \in TracksUpTo(MaxScenarioSectors)
    /\ pre = <<>>
    /\ last = Idle
    /\ log = <<>>
    /\ metamask = MetaMask_default
    /\ viewer = SectorViewer_new(TrackCh, IdA)

\* read_sector as the first call, or after a write.
ScenarioRead ==
    /\ IF log = <<>> THEN TRUE ELSE log[Len(log)].op = "write_sector"
    /\ \E q \in ScenarioQueries :
        \E rnd \in ReadDraws(sectors, q.chs, q.n, "DataOnly", q.debug) :
            /\ log' = Append(log, [op |-> "read_sector", chs |-> q.chs, n |-> q.n,
                                   scope |-> "DataOnly", debug |-> q.debug,
                                   res |-> read_sector(sectors, q.chs, q.n, "DataOnly",
                                                       q.debug, rnd),
                                   before |-> sectors])
            /\ UNCHANGED <<sectors, pre, last, metamask, viewer>>

\* write_sector as the first call or after one other call.
ScenarioWrite ==
    /\ Len(log) <= 1
    /\ \E q \in ScenarioQueries, write_data \in ScenarioBufs, write_deleted \in BOOLEAN :
        LET r == write_sector(sectors, q.chs, q.n, write_data, "DataOnly",
                              write_deleted, q.debug)
        IN  /\ sectors' = r.sectors
            /\ log' = Append(log, [op |-> "write_sector", chs |-> q.chs, n |-> q.n,
                                   write_data |-> write_data, scope |-> "DataOnly",
                                   write_deleted |-> write_deleted, debug |-> q.debug,
                                   res |-> r.res,
                                   before |-> sectors])
            /\ UNCHANGED <<pre, last, metamask, viewer>>

NextScenario ==
    \/ ScenarioRead
    \/ ScenarioWrite

ScenarioSpec == InitScenario /\ [][NextScenario]_vars

(***************************************************************************)
(* Call pairs on one track: a caller that adds a sector and reads it back, *)
(* or asks for the hash of the track twice.  log holds the calls, each     *)
(* with the track it found.                                                *)
(***************************************************************************)
InitCalls ==
    /\ sectors \in TracksUpTo(MaxScenarioSectors)
    /\ pre = <<>>
    /\ last = Idle
    /\ log = <<>>
    /\ metamask = MetaMask_default
    /\ viewer = SectorViewer_new(TrackCh, IdA)

\* add_sector(sd, alternate = false) as the first call.
CallerAdd ==
    /\ log = <<>>
    /\ \E sd \in Descriptors :
        LET r == add_sector(sectors, sd, FALSE)
        IN  /\ sectors' = r.sectors
            /\ log' = Append(log, [op |-> "add_sector", sd |-> sd, alternate |-> FALSE,
                                   res |-> r.res, before |-> sectors])
            /\ UNCHANGED <<pre, last, metamask, viewer>>

\* The queries for the sector just added: its C, H, S, with N absent or its n.
ReadBackQueries(sd) ==
    {[chs |-> ChsFrom(sd.id_chsn), n |-> n, debug |-> FALSE] :
        n \in {None, Some(sd.id_chsn.n)}}

\* read_sector (DataOnly) for the id of the sector the first call added.
CallerReadBack ==
    /\ Len(log) = 1
    /\ log[1].op = "add_sector"
    /\ \E q \in ReadBackQueries(log[1].sd) :
        \E rnd \in ReadDraws(sectors, q.chs, q.n, "DataOnly", q.debug) :
            /\ log' = Append(log, [op |-> "read_sector", chs |-> q.chs, n |-> q.n,
                                   scope |-> "DataOnly", debug |-> q.debug,
                                   res |-> read_sector(sectors, q.chs, q.n, "DataOnly",
                                                       q.debug, rnd),
                                   before |-> sectors])
            /\ UNCHANGED <<sectors, pre, last, metamask, viewer>>

\* get_hash as the first call, or after another get_hash.
CallerHash ==
    /\ IF log = <<>> THEN TRUE ELSE Len(log) = 1 /\ log[1].op = "get_hash"
    /\ \E rnds \in TrackDraws(sectors) :
        /\ log' = Append(log, [op |-> "get_hash", res |-> get_hash(sectors, rnds),
                               before |-> sectors])
        /\ UNCHANGED <<sectors, pre, last, metamask, viewer>>

NextCalls ==
    \/ CallerAdd
    \/ CallerReadBack
    \/ CallerHash

CallsSpec == InitCalls /\ [][NextCalls]_vars

(***************************************************************************)
(* A MetaMask on its own: any sequence of its operations.  A call that     *)
(* panics ends the sequence.                                               *)
(***************************************************************************)
MaskByteVals == {0, 1, 2, 128}

RECURSIVE SlicesUpTo(_)
SlicesUpTo(len) ==
    IF len = 0 THEN {<<>>}
    ELSE LET shorter == SlicesUpTo(len - 1)
         IN  shorter \cup {Append(b, v) : b \in {x \in shorter : Len(x) = len - 1},
                                          v \in MaskByteVals}

MaskSlices == SlicesUpTo(MaxMaskLen)

InitMask ==
    /\ sectors = <<>>
    /\ pre = <<>>
    /\ last = Idle
    /\ log = <<>>
    /\ metamask = MetaMask_default
    /\ viewer = SectorViewer_new(TrackCh, IdA)

\* No call on the mask has panicked.
MaskAlive == IF last = Idle THEN TRUE ELSE last.res.kind # "Panic"

MaskEmpty ==
    /\ MaskAlive
    /\ \E len \in 0..MaxMaskLen :
        /\ metamask' = MetaMask_empty(len)
        /\ last' = [op |-> "empty", res |-> Ok(Unit)]
    /\ UNCHANGED <<sectors, pre, log, viewer>>

MaskFrom ==
    /\ MaskAlive
    /\ \E bytes \in MaskSlices :
        /\ metamask' = MetaMask_from(bytes)
        /\ last' = [op |-> "from", res |-> Ok(Unit)]
    /\ UNCHANGED <<sectors, pre, log, viewer>>

MaskSetMask ==
    /\ MaskAlive
    /\ \E bytes \in MaskSlices :
        /\ metamask' = set_mask(metamask, bytes)
        /\ last' = [op |-> "set_mask", res |-> Ok(Unit)]
    /\ UNCHANGED <<sectors, pre, log, viewer>>

MaskOrMask ==
    /\ MaskAlive
    /\ \E bytes \in MaskSlices :
        LET source_mask == MetaMask_from(bytes)
        IN  IF or_mask_panics(metamask, source_mask)
            THEN /\ metamask' = or_slice_unwound(metamask, source_mask.mask)
                 /\ last' = [op |-> "or_mask", res |-> Panic]
            ELSE /\ metamask' = or_mask(metamask, source_mask)
                 /\ last' = [op |-> "or_mask", res |-> Ok(Unit)]
    /\ UNCHANGED <<sectors, pre, log, viewer>>

MaskOrSlice ==
    /\ MaskAlive
    /\ \E source_mask \in MaskSlices :
        IF or_slice_panics(metamask, source_mask)
        THEN /\ metamask' = or_slice_unwound(metamask, source_mask)
             /\ last' = [op |-> "or_slice", res |-> Panic]
        ELSE /\ metamask' = or_slice(metamask, source_mask)
             /\ last' = [op |-> "or_slice", res |-> Ok(Unit)]
    /\ UNCHANGED <<sectors, pre, log, viewer>>

MaskClear ==
    /\ MaskAlive
    /\ metamask' = clear(metamask)
    /\ last' = [op |-> "clear", res |-> Ok(Unit)]
    /\ UNCHANGED <<sectors, pre, log, viewer>>

NextMask ==
    \/ MaskEmpty
    \/ MaskFrom
    \/ MaskSetMask
    \/ MaskOrMask
    \/ MaskOrSlice
    \/ MaskClear

MaskSpec == InitMask /\ [][NextMask]_vars

(***************************************************************************)
(* Queries on the IDs of one track: a caller that follows get_next_id      *)
(* around the track, feeding the S of each answer into the next call, or   *)
(* asks for the consistency of the track.                                  *)
(***************************************************************************)
IdE == Chsn(0, 0, 3, 0)

IdDescriptors ==
    { Descriptor(IdA, FALSE, FALSE, FALSE, FALSE, Fill(170, 128), None, None),
      Descriptor(IdB, TRUE,  TRUE,  FALSE, FALSE, Fill(171, 256), None, None),
      Descriptor(IdC, FALSE, FALSE, TRUE,  TRUE,  Fill(171, 128), None, None),
      Descriptor(IdE, FALSE, FALSE, FALSE, FALSE, Fill(170, 128), None, None) }

\* The tracks add_sector builds from at most k of these descriptors.
RECURSIVE IdTracksUpTo(_)
IdTracksUpTo(k) ==
    IF k = 0 THEN {<<>>}
    ELSE LET shorter == IdTracksUpTo(k - 1)
         IN  shorter \cup {add_sector(S, sd, FALSE).sectors :
                              S \in shorter, sd \in IdDescriptors}

IdQueries == {Chs(0, 0, 1), Chs(0, 0, 3), Chs(1, 0, 2)}

InitIds ==
    /\ sectors \in IdTracksUpTo(MaxIdSectors)
    /\ pre = <<>>
    /\ last = Idle
    /\ log = <<>>
    /\ metamask = MetaMask_default
    /\ viewer = SectorViewer_new(TrackCh, IdA)

\* The query of the next get_next_id: any query first, then the C and H of the
\* first query with the S of the last answer.
NextIdQueries ==
    IF log = <<>> THEN IdQueries
    ELSE LET prev == log[Len(log)]
         IN  IF prev.res.some
             THEN {Chs(log[1].chs.c, log[1].chs.h, prev.res.val.s)}
             ELSE {}

\* One get_next_id call; the caller makes as many as the track has sectors.
GetNextId ==
    /\ last = Idle
    /\ log = <<>> \/ Len(log) < Len(sectors)
    /\ \E chs \in NextIdQueries :
        log' = Append(log, [op |-> "get_next_id", chs |-> chs,
                            res |-> get_next_id(sectors, chs)])
    /\ UNCHANGED <<sectors, pre, last, metamask, viewer>>

GetTrackConsistency ==
    /\ last = Idle
    /\ log = <<>>
    /\ last' = [op |-> "get_track_consistency", res |-> get_track_consistency(sectors)]
    /\ UNCHANGED <<sectors, pre, log, metamask, viewer>>

NextIds ==
    \/ GetNextId
    \/ GetTrackConsistency

IdSpec == InitIds /\ [][NextIds]_vars

(***************************************************************************)
(* A sector viewer on a disk with one track (ViewerSpec)                   *)
(***************************************************************************)
MaxViewerSectors == 2

\* A plain sector, and a sector with no data and one with weak bytes under
\* another ID.
ViewerDescriptors ==
    { Descriptor(IdA, FALSE, FALSE, FALSE, FALSE, Fill(170, 128), None, None),
      Descriptor(IdC, FALSE, TRUE, TRUE, TRUE, Fill(170, 128), None, None),
      Descriptor(IdC, FALSE, FALSE, FALSE, FALSE, Fill(170, 128),
                 Some(<<255, 255>> \o Fill(0, 126)), None) }

\* The tracks add_sector builds from at most k of these descriptors.
RECURSIVE ViewerTracksUpTo(_)
ViewerTracksUpTo(k) ==
    IF k = 0 THEN {<<>>}
    ELSE LET shorter == ViewerTracksUpTo(k - 1)
         IN  shorter \cup {add_sector(S, sd, FALSE).sectors :
                              S \in shorter, sd \in ViewerDescriptors}

\* What the user selects: a place on the disk and a sector ID.
Selections ==
    {[phys_ch |-> ch, sector_id |-> id] : ch \in PhysChs, id \in {IdA, IdB, IdC}}

InitViewer ==
    /\ sectors \in ViewerTracksUpTo(MaxViewerSectors)
    /\ pre = <<>>
    /\ last = Idle
    /\ log = <<>>
    /\ metamask = MetaMask_default
    /\ viewer = SectorViewer_new(TrackCh, IdA)

\* update when another tool holds the disk: no read is made.
UpdateLockFailed ==
    /\ last = Idle
    /\ \E selection \in Selections :
        last' = [op |-> "update", selection |-> selection, locked |-> FALSE]
    /\ viewer' = update_LockFailed(viewer)
    /\ pre' = sectors
    /\ UNCHANGED <<sectors, log, metamask>>

\* update with the lock held.  The query carries the C, H, S and N of the
\* selected ID; the N the track is asked for is that N or none.
UpdateRead ==
    /\ last = Idle
    /\ \E selection \in Selections :
        LET id == selection.sector_id
        IN  \E n \in {None, Some(id.n)} :
            \E rnd \in ReadDraws(sectors, ChsFrom(id), n, "DataOnly", FALSE) :
                LET rsr == DiskImage_read_sector(sectors, selection.phys_ch,
                                                 ChsFrom(id), n, "DataOnly",
                                                 FALSE, rnd)
                IN  /\ last' = [op |-> "update", selection |-> selection,
                                locked |-> TRUE, n |-> n, res |-> rsr]
                    /\ viewer' = update_OnResult(viewer, selection, rsr)
    /\ pre' = sectors
    /\ UNCHANGED <<sectors, log, metamask>>

NextViewer ==
    \/ ReadSector
    \/ UpdateLockFailed
    \/ UpdateRead
    \/ DropResult

ViewerSpec == InitViewer /\ [][NextViewer]_vars

(***************************************************************************)
(* Properties                                                              *)
(***************************************************************************)
\* Does a sector ID answer the query (C, H, S, optional N, debug flag)?
IdAnswers(id, chs, n, debug) ==
    IF debug THEN id.s = chs.s
    ELSE /\ id.c = chs.c
         /\ id.h = chs.h
         /\ id.s = chs.s
         /\ (n.some => id.n = n.val)

\* The track indices of the sectors a call's query designates.
Hits(S, call) == {i \in 1..Len(S) : IdAnswers(S[i].id_chsn, call.chs, call.n, call.debug)}

Lowest(I) == CHOOSE i \in I : \A j \in I : i <= j

\* The diagnostic flags of a query over a whole track.
Diag(S, chs) ==
    [wrong_cylinder |-> \E i \in 1..Len(S) : S[i].id_chsn.c # chs.c,
     bad_cylinder |-> \E i \in 1..Len(S) : S[i].id_chsn.c = 255,
     wrong_head |-> \E i \in 1..Len(S) : S[i].id_chsn.h # chs.h]

SameDiag(val, S, chs) ==
    /\ val.wrong_cylinder = Diag(S, chs).wrong_cylinder
    /\ val.bad_cylinder = Diag(S, chs).bad_cylinder
    /\ val.wrong_head = Diag(S, chs).wrong_head

Wrote == last.op = "write_sector"

WroteToOne == Wrote /\ Cardinality(Hits(pre, last)) = 1

Target == pre[Lowest(Hits(pre, last))]

RightSize == Len(last.write_data) = 128 * (2 ^ Target.id_chsn.n)

Protected(s) == s.missing_data \/ s.address_crc_error

\* C2: a write_sector call whose query designates exactly one sector, that
\* sector having missing_data or address_crc_error set, with a buffer of the
\* sector's size, returns Ok, changes nothing on the track, and returns
\* no_dam = missing_data and address_crc_error = the sector's flag.
C2_WriteSuppression ==
    (WroteToOne /\ Protected(Target) /\ RightSize)
        => /\ last.res.kind = "Ok"
           /\ sectors = pre
           /\ last.res.val.no_dam = Target.missing_data
           /\ last.res.val.address_crc_error = Target.address_crc_error

C2_Witness ==
    /\ WroteToOne /\ Protected(Target) /\ RightSize
    /\ Target.address_crc_error /\ ~Target.missing_data
    /\ last.res.kind = "Ok" /\ last.res.val.address_crc_error /\ ~last.res.val.no_dam
    /\ Target.data # last.write_data

\* C3: a write_sector call whose query designates two or more sectors returns
\* the error UniqueIdError and changes no sector, whatever the buffer length.
C3_DuplicateIdsRefuseWrite ==
    (Wrote /\ Cardinality(Hits(pre, last)) >= 2)
        => /\ last.res = Err("UniqueIdError")
           /\ sectors = pre

C3_Witness ==
    /\ Wrote /\ Cardinality(Hits(pre, last)) >= 2
    /\ \E i \in Hits(pre, last) : Len(last.write_data) # 128 * (2 ^ pre[i].id_chsn.n)
    /\ \E i \in Hits(pre, last) : ~Protected(pre[i])
    /\ last.res = Err("UniqueIdError")

\* C4: a write_sector call whose query designates exactly one sector and
\* whose buffer length differs from 128*2^n of that sector returns
\* ParameterError and changes nothing, whether or not the sector is writable.
C4_WriteSizeMismatch ==
    (WroteToOne /\ ~RightSize)
        => /\ last.res = Err("ParameterError")
           /\ sectors = pre

C4_Witness ==
    /\ WroteToOne /\ ~RightSize
    /\ Protected(Target)
    /\ last.res = Err("ParameterError")

\* C5 as stated: a write_sector call whose query designates no sector returns
\* Ok with all six flags false and leaves the track unchanged.
C5_AsStated ==
    (Wrote /\ Hits(pre, last) = {})
        => /\ last.res.kind = "Ok"
           /\ last.res.val = [not_found |-> FALSE, no_dam |-> FALSE,
                              address_crc_error |-> FALSE, wrong_cylinder |-> FALSE,
                              bad_cylinder |-> FALSE, wrong_head |-> FALSE]
           /\ sectors = pre

\* C5 amended: a write_sector call whose query designates no sector returns
\* Ok with not_found, no_dam and address_crc_error false and with
\* wrong_cylinder, bad_cylinder and wrong_head equal to the diagnostic flags of
\* the query over the track, and leaves the track unchanged.
C5_WriteZeroMatches ==
    (Wrote /\ Hits(pre, last) = {})
        => /\ last.res.kind = "Ok"
           /\ ~last.res.val.not_found
           /\ ~last.res.val.no_dam
           /\ ~last.res.val.address_crc_error
           /\ SameDiag(last.res.val, pre, last.chs)
           /\ sectors = pre

C5_Witness ==
    /\ Wrote /\ Hits(pre, last) = {}
    /\ last.res.kind = "Ok"
    /\ last.res.val.wrong_cylinder /\ last.res.val.bad_cylinder /\ last.res.val.wrong_head

\* C6: a write_sector call that designates exactly one writable sector, with
\* a buffer of the sector's size, and returns Ok leaves that sector with
\* data = buffer and deleted_mark = write_deleted and every other field of it,
\* and every other sector, unchanged.
C6_SuccessfulWriteEffect ==
    (WroteToOne /\ ~Protected(Target) /\ RightSize /\ last.res.kind = "Ok")
        => LET t == Lowest(Hits(pre, last))
           IN  /\ Len(sectors) = Len(pre)
               /\ \A i \in 1..Len(pre) : i # t => sectors[i] = pre[i]
               /\ sectors[t].data = last.write_data
               /\ sectors[t].deleted_mark = last.write_deleted
               /\ sectors[t].weak_mask = pre[t].weak_mask
               /\ sectors[t].hole_mask = pre[t].hole_mask
               /\ sectors[t].id_chsn = pre[t].id_chsn
               /\ sectors[t].address_crc_error = pre[t].address_crc_error
               /\ sectors[t].data_crc_error = pre[t].data_crc_error
               /\ sectors[t].missing_data = pre[t].missing_data

C6_Witness ==
    /\ WroteToOne /\ ~Protected(Target) /\ RightSize /\ last.res.kind = "Ok"
    /\ Len(pre) = 2
    /\ Target.hole_mask.has_bits
    /\ Target.data # last.write_data
    /\ Target.deleted_mark # last.write_deleted
    /\ sectors # pre

Read == last.op = "read_sector" /\ last.scope = "DataOnly"

\* C8: a read_sector call (DataOnly) whose query designates no sector returns
\* Ok with not_found = true, id_chsn = None, an empty buffer, data_len = 0,
\* the sector flags false and the diagnostic flags of the query over the track.
C8_ReadZeroMatches ==
    (Read /\ Hits(pre, last) = {})
        => /\ last.res.kind = "Ok"
           /\ last.res.val.not_found
           /\ last.res.val.id_chsn = None
           /\ last.res.val.read_buf = <<>>
           /\ last.res.val.data_len = 0
           /\ ~last.res.val.deleted_mark
           /\ ~last.res.val.no_dam
           /\ ~last.res.val.address_crc_error
           /\ ~last.res.val.data_crc_error
           /\ SameDiag(last.res.val, pre, last.chs)

C8_Witness ==
    /\ Read /\ Hits(pre, last) = {}
    /\ Len(pre) > 0
    /\ last.res.kind = "Ok" /\ last.res.val.not_found /\ last.res.val.wrong_cylinder

\* C9: a read_sector call (DataOnly) whose query designates one or more
\* sectors builds its result from the designated sector of lowest track index:
\* its id, data_idx 0, the length of its data, one of its read_data() results,
\* its deleted_mark, address_crc_error and data_crc_error, not_found = false.
C9_ReadTieBreak ==
    (Read /\ Hits(pre, last) # {})
        => LET s == pre[Lowest(Hits(pre, last))]
           IN  /\ last.res.kind = "Ok"
               /\ last.res.val.id_chsn = Some(s.id_chsn)
               /\ last.res.val.data_idx = 0
               /\ last.res.val.data_len = Len(s.data)
               /\ \E rnd \in RandDraws(s) : last.res.val.read_buf = read_data(s, rnd)
               /\ last.res.val.deleted_mark = s.deleted_mark
               /\ last.res.val.address_crc_error = s.address_crc_error
               /\ last.res.val.data_crc_error = s.data_crc_error
               /\ ~last.res.val.not_found

C9_Witness ==
    /\ Read /\ Cardinality(Hits(pre, last)) = 2
    /\ LET lo == Lowest(Hits(pre, last))
           hi == Lowest(Hits(pre, last) \ {lo})
       IN  /\ pre[lo].data # pre[hi].data
           /\ pre[lo].address_crc_error # pre[hi].address_crc_error
           /\ last.res.kind = "Ok"
           /\ last.res.val.read_buf = pre[lo].data
           /\ last.res.val.address_crc_error = pre[lo].address_crc_error

\* C10 as stated: a read_sector call (DataOnly) returns Ok for every track and
\* query, and when a sector is selected the result's address_crc_error,
\* data_crc_error and no_dam equal the sector's address_crc_error,
\* data_crc_error and missing_data.
C10_AsStated ==
    Read
        => /\ last.res.kind = "Ok"
           /\ Hits(pre, last) # {}
                => LET s == pre[Lowest(Hits(pre, last))]
                   IN  /\ last.res.val.address_crc_error = s.address_crc_error
                       /\ last.res.val.data_crc_error = s.data_crc_error
                       /\ last.res.val.no_dam = s.missing_data

\* Do two buffers agree on every bit that the masks of sector s leave alone?
AgreeOutsideMasks(s, buf1, buf2) ==
    /\ Len(buf1) = Len(buf2)
    /\ \A i \in 1..Len(buf1) :
          LET keep == BitNot(MaskByte(s, i))
          IN  IF keep = 255 THEN buf1[i] = buf2[i]
              ELSE BitAnd(buf1[i], keep) = BitAnd(buf2[i], keep)

SameQuery(c1, c2) == c1.chs = c2.chs /\ c1.n = c2.n /\ c1.debug = c2.debug

\* Call k of the log is a write_sector that designated exactly one writable
\* sector, had a buffer of that sector's size and returned Ok.
GoodWrite(k) ==
    /\ log[k].op = "write_sector"
    /\ Cardinality(Hits(log[k].before, log[k])) = 1
    /\ LET s == log[k].before[Lowest(Hits(log[k].before, log[k]))]
       IN  /\ ~Protected(s)
           /\ Len(log[k].write_data) = 128 * (2 ^ s.id_chsn.n)
    /\ log[k].res.kind = "Ok"

ReadAfter(k) ==
    /\ log[k + 1].op = "read_sector"
    /\ log[k + 1].scope = "DataOnly"
    /\ SameQuery(log[k], log[k + 1])

RewriteAfter(k) ==
    /\ log[k + 1].op = "write_sector"
    /\ SameQuery(log[k], log[k + 1])
    /\ log[k + 1].write_data = log[k].write_data
    /\ log[k + 1].write_deleted = log[k].write_deleted

\* C1 as stated: after a good write_sector(q, buf), a following read_sector(q)
\* returns read_buf = buf, and a second write_sector(q, buf) with the same
\* write_deleted leaves the track as the first write left it.
C1_AsStated ==
    \A k \in 1..(Len(log) - 1) :
        GoodWrite(k) =>
            /\ ReadAfter(k) => /\ log[k + 1].res.kind = "Ok"
                               /\ log[k + 1].res.val.read_buf = log[k].write_data
            /\ RewriteAfter(k) => sectors = log[k + 1].before

\* C1 amended: after a good write_sector(q, buf), a following read_sector(q)
\* returns a read_buf of the length of buf that agrees with buf on every bit
\* where (weak_mask | hole_mask) of the sector is 0 (so read_buf = buf when
\* both masks are all zero), and a second write_sector(q, buf) with the same
\* write_deleted leaves the track as the first write left it.
C1_WriteThenRead ==
    \A k \in 1..(Len(log) - 1) :
        GoodWrite(k) =>
            LET s == log[k].before[Lowest(Hits(log[k].before, log[k]))]
            IN  /\ ReadAfter(k) =>
                      /\ log[k + 1].res.kind = "Ok"
                      /\ AgreeOutsideMasks(s, log[k + 1].res.val.read_buf, log[k].write_data)
                      /\ (~s.weak_mask.has_bits /\ ~s.hole_mask.has_bits)
                            => log[k + 1].res.val.read_buf = log[k].write_data
                /\ RewriteAfter(k) => /\ log[k + 1].res.kind = "Ok"
                                      /\ sectors = log[k + 1].before

C1_Witness ==
    /\ Len(log) = 3
    /\ GoodWrite(1) /\ RewriteAfter(1)
    /\ GoodWrite(2) /\ ReadAfter(2)
    /\ log[1].before # log[2].before
    /\ log[2].before = sectors
    /\ log[3].res.kind = "Ok"
    /\ log[3].res.val.read_buf = log[1].write_data

\* The log is read_sector -> buf1, write_sector(same query, buf1) -> Ok,
\* read_sector -> buf2 on a writable sector with a non-zero hole mask.
ProlokRun ==
    /\ Len(log) = 3
    /\ log[1].op = "read_sector" /\ log[1].res.kind = "Ok" /\ ~log[1].res.val.not_found
    /\ LET s == log[1].before[Lowest(Hits(log[1].before, log[1]))]
       IN  AnyNonZero(s.hole_mask.mask) /\ ~s.address_crc_error /\ ~s.missing_data
    /\ log[2].op = "write_sector" /\ SameQuery(log[1], log[2])
    /\ log[2].write_data = log[1].res.val.read_buf
    /\ log[2].res.kind = "Ok"
    /\ log[3].op = "read_sector" /\ SameQuery(log[1], log[3])

\* C7: for a sector with a non-zero hole mask, no address CRC error and data
\* present, read_sector -> buf1, write_sector(buf1) -> Ok, read_sector -> buf2
\* gives a buf2 that agrees with buf1 on every bit where (weak_mask | hole_mask)
\* is 0; the write leaves the hole mask in place, so buf2 may differ from buf1
\* under the mask (C7_Witness is such a run).
C7_HoleSurvivesWriteBack ==
    ProlokRun =>
        LET s == log[1].before[Lowest(Hits(log[1].before, log[1]))]
            t == sectors[Lowest(Hits(sectors, log[3]))]
        IN  /\ log[3].res.kind = "Ok"
            /\ AgreeOutsideMasks(s, log[3].res.val.read_buf, log[1].res.val.read_buf)
            /\ t.hole_mask = s.hole_mask
            /\ t.weak_mask = s.weak_mask

C7_Witness ==
    /\ ProlokRun
    /\ log[3].res.kind = "Ok"
    /\ log[3].res.val.read_buf # log[1].res.val.read_buf
    /\ Len(log[3].res.val.read_buf) = Len(log[1].res.val.read_buf)

(***************************************************************************)
(* C11..C20                                                                *)
(***************************************************************************)
\* C11 as stated: read_sector with scope DataBlock returns
\* Err(ParameterError) to the caller and leaves the track unchanged, for
\* every track and query.
C11_AsStated ==
    (last.op = "read_sector" /\ last.scope = "DataBlock") =>
        /\ last.res = Err("ParameterError")
        /\ sectors = pre

\* The existing sector an alternate add_sector merges into.
Merged == /\ last.op = "add_sector"
          /\ last.alternate
          /\ FindId(pre, last.sd.id_chsn) # 0

\* C13 as stated: add_sector(sd, alternate = true) on a track that holds a
\* sector with sd's id_chsn returns Ok, leaves the sector count and that
\* sector's data unchanged and sets the first such sector's weak_mask to
\* old weak_mask | (old data ^ sd.data), byte by byte; if the two data vectors
\* differ, has_weak_bits() is true afterwards.
C13_AsStated ==
    Merged =>
        LET e == FindId(pre, last.sd.id_chsn)
            old == pre[e]
            new_data == last.sd.data
            xor(i) == IF i <= Len(new_data) THEN BitXor(old.data[i], new_data[i]) ELSE 0
        IN  /\ last.res = Ok(Unit)
            /\ Len(sectors) = Len(pre)
            /\ sectors[e].data = old.data
            /\ sectors[e].weak_mask.mask =
                  [i \in 1..Len(old.weak_mask.mask) |-> BitOr(old.weak_mask.mask[i], xor(i))]
            /\ (old.data # new_data) => has_weak_bits(sectors)

\* C14 as stated: in every track reachable by add_sector (either mode, any
\* descriptor) and write_sector calls, every sector has
\* len(data) = len(weak_mask) = len(hole_mask) = 128 * 2^id_chsn.n.
C14_AsStated ==
    \A i \in 1..Len(sectors) :
        LET s == sectors[i]
        IN  /\ Len(s.data) = n_to_bytes(s.id_chsn.n)
            /\ Len(s.weak_mask.mask) = Len(s.data)
            /\ Len(s.hole_mask.mask) = Len(s.data)

\* The descriptor has no mask bit: each mask is absent or all zero.
NoMaskBits(sd) ==
    /\ sd.weak_mask.some => ~AnyNonZero(sd.weak_mask.val)
    /\ sd.hole_mask.some => ~AnyNonZero(sd.hole_mask.val)

\* The log is add_sector(sd, alternate = false) followed by a read_sector for
\* sd's id, sd having no mask bit.
AddedThenRead ==
    /\ Len(log) = 2
    /\ log[1].op = "add_sector" /\ ~log[1].alternate
    /\ log[2].op = "read_sector"
    /\ NoMaskBits(log[1].sd)

\* C12 as stated: on any track, after add_sector(sd, alternate = false) of a
\* descriptor without mask bits, read_sector (DataOnly, debug = false) for
\* sd's C, H, S (N absent or sd's n) returns read_buf = sd.data.
C12_AsStated ==
    AddedThenRead =>
        /\ log[2].res.kind = "Ok"
        /\ log[2].res.val.read_buf = log[1].sd.data

\* C12 amended: on a track where no sector answers the query before the add,
\* after add_sector(sd, alternate = false) of a descriptor without mask bits
\* and with missing_data = false, read_sector (DataOnly, debug = false) for
\* sd's C, H, S (N absent or sd's n) returns Ok with not_found = false and
\* read_buf = sd.data.
C12_AddThenRead ==
    (/\ AddedThenRead
     /\ ~log[1].sd.missing_data
     /\ Hits(log[1].before, log[2]) = {}) =>
        /\ log[1].res = Ok(Unit)
        /\ log[2].res.kind = "Ok"
        /\ ~log[2].res.val.not_found
        /\ log[2].res.val.read_buf = log[1].sd.data

C12_Witness ==
    /\ AddedThenRead
    /\ ~log[1].sd.missing_data
    /\ Hits(log[1].before, log[2]) = {}
    /\ log[1].before # <<>>
    /\ log[2].n.some
    /\ log[2].res.val.read_buf = log[1].sd.data
    /\ Len(log[2].res.val.read_buf) = 256

\* C15: after any sequence of MetaMask operations (empty, from, set_mask,
\* or_mask, or_slice, clear) none of which panicked, has_bits is true if and
\* only if at least one byte of the mask is non-zero.
C15_FlagInvariant ==
    MaskAlive => (metamask.has_bits <=> AnyNonZero(metamask.mask))

C15_Witness ==
    /\ last.op = "or_mask"
    /\ last.res = Ok(Unit)
    /\ metamask.has_bits
    /\ metamask.mask = <<129, 0>>

\* C16: read_data() on a sector with missing_data = false returns a buffer of
\* the length of data that agrees with data on every bit where
\* (weak_mask | hole_mask) is 0, whatever random bytes are drawn, and exactly
\* data when both masks are all zero; with missing_data = true it returns the
\* empty buffer.
C16_EffectiveData ==
    last.op = "read_data" =>
        LET s == pre[last.idx]
        IN  IF s.missing_data THEN last.res = Ok(<<>>)
            ELSE /\ last.res.kind = "Ok"
                 /\ Len(last.res.val) = Len(s.data)
                 /\ AgreeOutsideMasks(s, last.res.val, s.data)
                 /\ (~AnyNonZero(s.weak_mask.mask) /\ ~AnyNonZero(s.hole_mask.mask))
                       => last.res.val = s.data

C16_Witness ==
    /\ last.op = "read_data"
    /\ ~pre[last.idx].missing_data
    /\ AnyNonZero(pre[last.idx].weak_mask.mask)
    /\ last.res.kind = "Ok"
    /\ last.res.val # pre[last.idx].data
    /\ Len(last.res.val) = Len(pre[last.idx].data)

\* The log is two get_hash calls in a row.
HashedTwice ==
    /\ Len(log) = 2
    /\ log[1].op = "get_hash"
    /\ log[2].op = "get_hash"

\* C17 as stated: on a track with has_weak_bits() false, two successive
\* get_hash() calls hash the same byte sequence and return the same digest.
C17_AsStated ==
    (HashedTwice /\ ~has_weak_bits(log[1].before)) => log[1].res = log[2].res

\* C17 amended: on a track with has_weak_bits() false and no sector with a
\* non-zero hole mask, two successive get_hash() calls hash the same byte
\* sequence and return the same digest.
C17_HashStable ==
    (/\ HashedTwice
     /\ ~has_weak_bits(log[1].before)
     /\ \A i \in 1..Len(log[1].before) : ~log[1].before[i].hole_mask.has_bits) =>
        /\ log[1].res.kind = "Ok"
        /\ log[1].res = log[2].res
        /\ sectors = log[1].before

C17_Witness ==
    /\ HashedTwice
    /\ ~has_weak_bits(log[1].before)
    /\ \A i \in 1..Len(log[1].before) : ~log[1].before[i].hole_mask.has_bits
    /\ Len(sectors) = 2
    /\ log[1].res = log[2].res
    /\ Len(log[2].res.val.sha1_of) = 256

\* The sectors whose recorded S is s, and the index that follows i on the track.
WithS(S, s) == {i \in 1..Len(S) : S[i].id_chsn.s = s}

Following(S, i) == IF i < Len(S) THEN i + 1 ELSE 1

\* C18 as stated: get_next_id(chs) returns the recorded id_chsn (C, H, S and
\* N) of the sector that follows the first sector with id.s = chs.s, wrapping
\* to the first sector after the last; None exactly when no sector has that S.
C18_AsStated ==
    \A k \in 1..Len(log) :
        log[k].op = "get_next_id" =>
            LET m == WithS(sectors, log[k].chs.s)
            IN  IF m = {} THEN log[k].res = None
                ELSE log[k].res = Some(sectors[Following(sectors, Lowest(m))].id_chsn)

\* C18 amended: get_next_id(chs) returns an id with the recorded S and N of the
\* sector that follows the first sector with id.s = chs.s (wrapping to the
\* first sector after the last) and with the C and H of the query chs; None
\* exactly when no sector has that S.
C18_NextId ==
    \A k \in 1..Len(log) :
        log[k].op = "get_next_id" =>
            LET m == WithS(sectors, log[k].chs.s)
            IN  IF m = {} THEN log[k].res = None
                ELSE LET next == sectors[Following(sectors, Lowest(m))].id_chsn
                     IN  log[k].res = Some(Chsn(log[k].chs.c, log[k].chs.h, next.s, next.n))

C18_Witness ==
    /\ Len(sectors) = 3
    /\ Len(log) = 1
    /\ log[1].op = "get_next_id"
    /\ Lowest(WithS(sectors, log[1].chs.s) \cup {3}) = 3
    /\ WithS(sectors, log[1].chs.s) # {}
    /\ log[1].res.some
    /\ log[1].res.val # sectors[1].id_chsn
    /\ log[1].res.val.s = sectors[1].id_chsn.s

\* The log is one get_next_id call per sector of a non-empty track, the first
\* for the S of a sector present, each later one for the S of the answer
\* before.
Walked ==
    /\ Len(sectors) >= 1
    /\ Len(log) = Len(sectors)
    /\ \A k \in 1..Len(log) : log[k].op = "get_next_id"
    /\ WithS(sectors, log[1].chs.s) # {}
    /\ \A k \in 2..Len(log) :
        IF log[k - 1].res.some THEN log[k].chs.s = log[k - 1].res.val.s ELSE FALSE

\* The sector call k of the walk arrives at.
Visited(k) == Following(sectors, Lowest(WithS(sectors, log[k].chs.s)))

\* The walk answers with the S of the sector it arrives at, arrives at every
\* sector, and ends on a sector with the S it started from.
Revolution ==
    /\ \A k \in 1..Len(log) : /\ log[k].res.some
                              /\ log[k].res.val.s = sectors[Visited(k)].id_chsn.s
    /\ {Visited(k) : k \in 1..Len(log)} = 1..Len(sectors)
    /\ Visited(Len(log)) \in WithS(sectors, log[1].chs.s)

\* C19 as stated: on any non-empty track, starting from the S of a sector
\* present and feeding the S of each answer back into get_next_id, the first k
\* calls (k the sector count) visit every sector once and the k-th returns to
\* the starting sector.
C19_AsStated == Walked => Revolution

DistinctS(S) == \A i, j \in 1..Len(S) : S[i].id_chsn.s = S[j].id_chsn.s => i = j

\* C19 amended: the same, on a non-empty track whose sectors have pairwise
\* distinct id.s.
C19_Revolution == (Walked /\ DistinctS(sectors)) => Revolution

C19_Witness ==
    /\ Walked
    /\ DistinctS(sectors)
    /\ Len(sectors) = 3
    /\ sectors[1].id_chsn.s # 1
    /\ log[3].res.val.s = log[1].chs.s

SizeCodes == 0..2

\* The answer of get_track_consistency fits size code n: it is Some(n) exactly
\* when all sectors have id.n = n.
FitsSize(n) ==
    (last.res.consistent_sector_size = Some(n))
        <=> (\A i \in 1..Len(sectors) : sectors[i].id_chsn.n = n)

MixedSizes == \E i, j \in 1..Len(sectors) : sectors[i].id_chsn.n # sectors[j].id_chsn.n

\* C20 as stated: on every track, the empty one included, and for every size
\* code n, consistent_sector_size is Some(n) iff all sectors have id.n = n, and
\* it is None when two sectors differ in n.
C20_AsStated ==
    last.op = "get_track_consistency" =>
        /\ \A n \in SizeCodes : FitsSize(n)
        /\ MixedSizes => last.res.consistent_sector_size = None

\* C20 amended: on every non-empty track and for every size code n,
\* consistent_sector_size is Some(n) iff all sectors have id.n = n, and it is
\* None when two sectors differ in n; on the empty track it is Some(0).
C20_ConsistentSize ==
    last.op = "get_track_consistency" =>
        IF sectors = <<>> THEN last.res.consistent_sector_size = Some(0)
        ELSE /\ \A n \in SizeCodes : FitsSize(n)
             /\ MixedSizes => last.res.consistent_sector_size = None

C20_Witness ==
    /\ last.op = "get_track_consistency"
    /\ Len(sectors) = 2
    /\ last.res.consistent_sector_size = Some(1)
    /\ last.res.sector_ct = 2

(***************************************************************************)
(* C21..C26                                                                *)
(***************************************************************************)
\* The recorded IDs of a track, in physical order.
IdSeq(S) == [i \in 1..Len(S) |-> S[i].id_chsn]

\* C21: after every track operation (add_sector in either mode, write_sector,
\* read_sector, scan_sector, read_all_sectors, get_next_id, get_hash,
\* get_track_consistency) the sequence of id_chsn values is the one before
\* the operation, or that one with the added id appended at the end by
\* add_sector; add_sector(alternate = false) appends whether or not the id is
\* already on the track.
C21_PhysicalOrder ==
    last # Idle =>
        /\ \/ IdSeq(sectors) = IdSeq(pre)
           \/ /\ last.op = "add_sector"
              /\ IdSeq(sectors) = Append(IdSeq(pre), last.sd.id_chsn)
        /\ (last.op = "add_sector" /\ ~last.alternate) =>
              /\ last.res = Ok(Unit)
              /\ IdSeq(sectors) = Append(IdSeq(pre), last.sd.id_chsn)
        /\ last.op \notin {"add_sector", "write_sector"} => sectors = pre

C21_Witness ==
    /\ last.op = "add_sector"
    /\ ~last.alternate
    /\ FindId(pre, last.sd.id_chsn) = 1
    /\ Len(sectors) = 2
    /\ sectors[1].id_chsn = sectors[2].id_chsn
    /\ sectors[1].data # sectors[2].data
    /\ sectors[1] = pre[1]

Matched == last.op \in {"match_sectors", "match_sectors_mut"}

\* C22: the sectors match_sectors / match_sectors_mut return are exactly, in
\* physical order, those with (debug false, id C,H,S = query C,H,S and N
\* absent or id.n = N) or (debug true and id.s = query.s); both matchers
\* select the same indices for the same inputs.
C22_MatchingPredicate ==
    Matched =>
        LET m == last.res.sectors
        IN  /\ {m[k] : k \in 1..Len(m)} = Hits(pre, last)
            /\ \A k \in 1..(Len(m) - 1) : m[k] < m[k + 1]
            /\ match_sectors(pre, last.chs, last.n, last.debug).sectors
                  = match_sectors_mut(pre, last.chs, last.n, last.debug).sectors
            /\ sectors = pre

C22_Witness ==
    /\ last.op = "match_sectors_mut"
    /\ last.debug
    /\ last.n.some
    /\ last.res.sectors = <<1, 2>>
    /\ pre[1].id_chsn.c # pre[2].id_chsn.c
    /\ pre[2].id_chsn.n # last.n.val

\* The tracks that hold the sectors of S in another order.
Reordered(S) ==
    LET Orders == {p \in [1..Len(S) -> 1..Len(S)] :
                      \A i, j \in 1..Len(S) : p[i] = p[j] => i = j}
    IN  {[i \in 1..Len(S) |-> S[p[i]]] : p \in Orders}

\* The last call returned a result record with the three diagnostic flags.
ReturnedDiag ==
    IF last.op \in {"read_sector", "scan_sector", "write_sector"}
    THEN last.res.kind = "Ok"
    ELSE FALSE

\* The same call on track T: a result record with the three flags of the last
\* call (the flags of a read are taken for one draw of random bytes: the
\* ReadSector action makes every draw on every track).
SameDiagOn(T) ==
    LET same(r) == /\ r.kind = "Ok"
                   /\ r.val.wrong_cylinder = last.res.val.wrong_cylinder
                   /\ r.val.bad_cylinder = last.res.val.bad_cylinder
                   /\ r.val.wrong_head = last.res.val.wrong_head
    IN  CASE last.op = "read_sector" ->
                LET rnd == CHOOSE r \in ReadDraws(T, last.chs, last.n, last.scope,
                                                  last.debug) : TRUE
                IN  same(read_sector(T, last.chs, last.n, last.scope, last.debug, rnd))
          [] last.op = "scan_sector" -> same(scan_sector(T, last.chs, last.n))
          [] last.op = "write_sector" ->
                same(write_sector(T, last.chs, last.n, last.write_data, last.scope,
                                  last.write_deleted, last.debug).res)

\* C23: in every result of read_sector, scan_sector and write_sector,
\* wrong_cylinder is true iff some sector of the track has id.c # query.c,
\* bad_cylinder iff some sector has id.c = 0xFF and wrong_head iff some
\* sector has id.h # query.h, matching or not; the same call on a track that
\* holds the same sectors in another order returns the same three flags.
C23_MatchingDiagnostics ==
    ReturnedDiag =>
        /\ SameDiag(last.res.val, pre, last.chs)
        /\ \A T \in Reordered(pre) : SameDiagOn(T)

C23_Witness ==
    /\ last.op = "scan_sector"
    /\ Len(pre) = 2
    /\ pre[1].id_chsn # pre[2].id_chsn
    /\ ~last.res.val.not_found
    /\ last.res.val.wrong_cylinder
    /\ last.res.val.bad_cylinder
    /\ last.res.val.wrong_head

\* The number of bytes read_data() returns for sector i of the track before
\* the call, and the number of bytes of the sectors before it.
SegLen(i) == IF pre[i].missing_data THEN 0 ELSE Len(pre[i].data)

RECURSIVE SegOff(_)
SegOff(i) == IF i = 1 THEN 0 ELSE SegOff(i - 1) + SegLen(i - 1)

\* C24: read_all_sectors(_, n, track_len) reads the first
\* min(track_len, sector count) sectors in physical order: sectors_read is
\* that number, read_buf is the concatenation of their read_data() results,
\* read_len_bytes = len(read_buf), read_len_bits = 16 * read_len_bytes, the
\* three flags are the OR over exactly those sectors and not_found is true
\* iff the track has no sectors; the track is unchanged.
C24_ReadTrackStopRule ==
    last.op = "read_all_sectors" =>
        LET k == Min(last.track_len, Len(pre))
            r == last.res.val
        IN  /\ last.res.kind = "Ok"
            /\ r.sectors_read = k
            /\ Len(r.read_buf) = SegOff(k + 1)
            /\ \A i \in 1..k :
                  SubSeq(r.read_buf, SegOff(i) + 1, SegOff(i) + SegLen(i))
                     = read_data(pre[i], last.rnds[i])
            /\ r.read_len_bytes = Len(r.read_buf)
            /\ r.read_len_bits = 16 * r.read_len_bytes
            /\ r.address_crc_error = (\E i \in 1..k : pre[i].address_crc_error)
            /\ r.data_crc_error = (\E i \in 1..k : pre[i].data_crc_error)
            /\ r.deleted_mark = (\E i \in 1..k : pre[i].deleted_mark)
            /\ r.not_found = (Len(pre) = 0)
            /\ sectors = pre

C24_Witness ==
    /\ last.op = "read_all_sectors"
    /\ last.track_len = 1
    /\ Len(pre) = 2
    /\ pre[2].deleted_mark
    /\ ~last.res.val.deleted_mark
    /\ ~last.res.val.not_found
    /\ last.res.val.sectors_read = 1
    /\ last.res.val.read_len_bits = 2048

\* The fields scan_sector and read_sector both report.
ScanFields(val) ==
    [not_found |-> val.not_found,
     no_dam |-> val.no_dam,
     deleted_mark |-> val.deleted_mark,
     address_crc_error |-> val.address_crc_error,
     data_crc_error |-> val.data_crc_error,
     wrong_cylinder |-> val.wrong_cylinder,
     bad_cylinder |-> val.bad_cylinder,
     wrong_head |-> val.wrong_head]

\* C25: scan_sector returns Ok with not_found, no_dam, deleted_mark,
\* address_crc_error, data_crc_error, wrong_cylinder, bad_cylinder and
\* wrong_head equal to the same-named fields of the result of read_sector
\* with the same query, scope DataOnly and debug = false, whatever random
\* bytes the read draws; scan_sector leaves the track unchanged.
C25_ScanAgreesWithRead ==
    last.op = "scan_sector" =>
        /\ last.res.kind = "Ok"
        /\ \A rnd \in ReadDraws(pre, last.chs, last.n, "DataOnly", FALSE) :
              LET r == read_sector(pre, last.chs, last.n, "DataOnly", FALSE, rnd)
              IN  /\ r.kind = "Ok"
                  /\ ScanFields(r.val) = ScanFields(last.res.val)
        /\ sectors = pre

C25_Witness ==
    /\ last.op = "scan_sector"
    /\ Len(pre) = 2
    /\ Cardinality(Hits(pre, last)) = 2
    /\ pre[1].deleted_mark # pre[2].deleted_mark
    /\ last.res.val.deleted_mark = pre[1].deleted_mark
    /\ ~last.res.val.not_found

\* Is the last call one that got an answer from read_sector?
ReadAnswered ==
    IF last.op = "read_sector" THEN last.res.kind = "Ok"
    ELSE IF last.op = "update"
    THEN IF last.locked THEN last.res.kind = "Ok" ELSE FALSE
    ELSE FALSE

\* C26: every result record read_sector returns, to a direct caller or to
\* SectorViewer::update through the disk, has id_chsn None exactly when
\* not_found is true; and the viewer is never left with the error "Sector
\* ID not returned".
C26_ReadCarriesId ==
    /\ ReadAnswered =>
          (~last.res.val.id_chsn.some <=> last.res.val.not_found)
    /\ viewer.error_string # Some("Sector ID not returned")

\* update showed the sector it read.
C26_Witness ==
    /\ last.op = "update"
    /\ ReadAnswered
    /\ last.res.val.id_chsn = Some(IdC)
    /\ ~last.res.val.not_found
    /\ viewer.table = "data"
    /\ viewer.valid
    /\ viewer.sector_id = IdC
    /\ viewer.error_string = None

\* The track never grows past the bound of the model.
TypeSectors == Len(sectors) <= MaxSectors
====
